---- MODULE Spec2Model ----
(***************************************************************************)
(* Nutrition5k: the dataset index (nutrition5k/dataset.py), the sample     *)
(* transforms (nutrition5k/dataset.py) and the training orchestrator       *)
(* (train.py), as four state machines over one set of variables:           *)
(*   SpecIndex      create_nutrition_df                                    *)
(*   SpecSplit      split_dataframe, and train.py's start-up up to the     *)
(*                  torch.save of the test loader                          *)
(*   SpecTrain      train.py's epoch loop (LiveTrain: the same, with the   *)
(*                  fairness of a sequential program that keeps running)   *)
(*   SpecTransform  the transform classes applied to sample dictionaries   *)
(* Each specification keeps the variables of the others at their idle      *)
(* values.                                                                 *)
(***************************************************************************)
EXTENDS Integers, Sequences, FiniteSets

VARIABLES
    \* ---- create_nutrition_df
    exists,          \* dish ids whose imagery/side_angles/<id>/camera_A/1.jpg exists
    fileno,          \* position in csv_files (1 or 2)
    lines,           \* the lines read so far, each as line.split(',')
    dish_metadata,   \* the dict of three lists
    ipc,             \* "reading", "returned", "IndexError", "ValueError"
    dataframe,       \* the DataFrame returned (NoFrame before)
    \* ---- split_dataframe and train.py start-up
    samples,         \* number of records of the index / dataset
    split,           \* config['split']: numerators of train and validation over Den
    spc,             \* split_dataframe: "call", "returned"
    index,           \* the shuffled index list of split_dataframe
    train_index, val_index, test_index,
    mpc,             \* train.py start-up: "start", "split", "loaders", "saved"
    indices,         \* the permutation random_split draws
    train_set, val_set, test_set,
    dataloaders,     \* phase name -> the records the loader iterates
    test_loader_pt,  \* the records of the loader saved as test_loader.pt
    \* ---- train.py epoch loop
    epochs,          \* config['epochs']
    save_best_model_only,
    tpc,             \* "loop", "phase", "run", "done", "TypeError"
    epoch,           \* the loop variable
    phase,           \* position in epoch_phases of the inner loop
    mode,            \* model.training: "train" or "eval"
    grads,           \* batches of gradient accumulated in the parameters' .grad
    training_loss, val_loss,
    best_val_loss, best_training_loss,
    checkpoints,     \* the e for which epoch_<e>.pt was written
    scalars,         \* tensorboard scalars: tag -> sequence of values, one per epoch
    hparams,         \* the metrics of add_hparams (NoSummary before)
    \* ---- transforms
    heap,            \* sample dictionaries by reference
    op, arg, ret,    \* the last transform call: its name, its argument, what it returned
    calls            \* number of transform calls made

indexVars == <<exists, fileno, lines, dish_metadata, ipc, dataframe>>
splitVars == <<samples, split, spc, index, train_index, val_index, test_index,
               mpc, indices, train_set, val_set, test_set, dataloaders, test_loader_pt>>
trainVars == <<epochs, save_best_model_only, tpc, epoch, phase, mode, grads, training_loss,
               val_loss, best_val_loss, best_training_loss, checkpoints, scalars, hparams>>
transformVars == <<heap, op, arg, ret, calls>>
vars == <<indexVars, splitVars, trainVars, transformVars>>

\* Python's None and a value v, as <<>> and <<v>>
None == <<>>

Some(v) == <<v>>

Value(x) == x[1]

(***************************************************************************)
(* Bounds of the model.                                                    *)
(***************************************************************************)
MaxLines == 3
MaxSamples == 3
Den == 4
MaxEpochs == 3
MaxLoss == 2
MaxGrads == 1
MaxRefs == 2
MaxCalls == 3

(***************************************************************************)
(* Python list helpers.                                                    *)
(***************************************************************************)
\* seq[lo:hi] for 0 <= lo, 0 <= hi (0-based, hi exclusive, clamped to the length)
Slice(seq, lo, hi) ==
    LET h == IF hi > Len(seq) THEN Len(seq) ELSE hi
    IN  IF lo >= h THEN <<>> ELSE SubSeq(seq, lo + 1, h)

(***************************************************************************)
(* create_nutrition_df                                                     *)
(***************************************************************************)
DishIds == {"D1", "D2"}

\* line.split(',') of the lines a metadata file may hold: a well-formed row, a
\* row with a calories field that is no number, and rows of two and of one field.
Rows ==
    UNION {{<<d, "250.0", "100.5">>, <<d, "400.7", "150.0">>, <<d, "abc", "100.5">>,
            <<d, "250.0">>, <<d>>} : d \in DishIds}

\* int(float(s)): the integer part of the number s spells, or a ValueError
IntFloat(s) ==
    CASE s = "250.0" -> [ok |-> TRUE, val |-> 250]
      [] s = "400.7" -> [ok |-> TRUE, val |-> 400]
      [] OTHER       -> [ok |-> FALSE, val |-> 0]

NoFrame == [index |-> <<>>, dish_id |-> <<>>, mass |-> <<>>, calories |-> <<>>, built |-> FALSE]

\* os.path.exists(frame) for the frame of dish_id
FrameExists(dish_id) == dish_id \in exists

\* A faulty ProcessLine: the os.path.exists test is dropped.
ProcessLineNoExistsTest(parts, md) ==
    LET d1 == [md EXCEPT !.dish_id = Append(@, parts[1])]
    IN  IF Len(parts) < 2 THEN [md |-> d1, pc |-> "IndexError"]
        ELSE IF ~IntFloat(parts[2]).ok THEN [md |-> d1, pc |-> "ValueError"]
        ELSE LET d2 == [d1 EXCEPT !.calories = Append(@, IntFloat(parts[2]).val)]
             IN  IF Len(parts) < 3 THEN [md |-> d2, pc |-> "IndexError"]
                 ELSE [md |-> [d2 EXCEPT !.mass = Append(@, parts[3])], pc |-> "reading"]

\* The body of the loop over f.readlines(): the dict after the line, and whether
\* the loop goes on ("reading") or an exception leaves the function.
ProcessLine(parts, md) ==
    IF ~FrameExists(parts[1]) THEN [md |-> md, pc |-> "reading"]
    ELSE LET d1 == [md EXCEPT !.dish_id = Append(@, parts[1])]
         IN  IF Len(parts) < 2 THEN [md |-> d1, pc |-> "IndexError"]
             ELSE IF ~IntFloat(parts[2]).ok THEN [md |-> d1, pc |-> "ValueError"]
             ELSE LET d2 == [d1 EXCEPT !.calories = Append(@, IntFloat(parts[2]).val)]
                  IN  IF Len(parts) < 3 THEN [md |-> d2, pc |-> "IndexError"]
                      ELSE [md |-> [d2 EXCEPT !.mass = Append(@, parts[3])],
                            pc |-> "reading"]

\* pd.DataFrame.from_dict(dish_metadata): the columns under a RangeIndex
FromDict(md) ==
    [index |-> [i \in 1..Len(md.dish_id) |-> i - 1], dish_id |-> md.dish_id,
     mass |-> md.mass, calories |-> md.calories, built |-> TRUE]

IdleIndex ==
    /\ exists = {}
    /\ fileno = 1
    /\ lines = <<>>
    /\ dish_metadata = [dish_id |-> <<>>, mass |-> <<>>, calories |-> <<>>]
    /\ ipc = "idle"
    /\ dataframe = NoFrame

InitIndex ==
    /\ exists \in SUBSET DishIds
    /\ fileno = 1
    /\ lines = <<>>
    /\ dish_metadata = [dish_id |-> <<>>, mass |-> <<>>, calories |-> <<>>]
    /\ ipc = "reading"
    /\ dataframe = NoFrame

\* one iteration of `for line in f.readlines()`
ReadLine ==
    /\ ipc = "reading"
    /\ Len(lines) < MaxLines
    /\ \E parts \in Rows :
         LET r == ProcessLine(parts, dish_metadata)
         IN  /\ lines' = Append(lines, parts)
             /\ dish_metadata' = r.md
             /\ ipc' = r.pc
    /\ UNCHANGED <<exists, fileno, dataframe>>
    /\ UNCHANGED <<splitVars, trainVars, transformVars>>

\* the first file is exhausted: `for csv_file in csv_files` opens the second
NextFile ==
    /\ ipc = "reading"
    /\ fileno = 1
    /\ fileno' = 2
    /\ UNCHANGED <<exists, lines, dish_metadata, ipc, dataframe>>
    /\ UNCHANGED <<splitVars, trainVars, transformVars>>

\* the second file is exhausted: return pd.DataFrame.from_dict(dish_metadata)
ReturnFrame ==
    /\ ipc = "reading"
    /\ fileno = 2
    /\ dataframe' = FromDict(dish_metadata)
    /\ ipc' = "returned"
    /\ UNCHANGED <<exists, fileno, lines, dish_metadata>>
    /\ UNCHANGED <<splitVars, trainVars, transformVars>>

(***************************************************************************)
(* split_dataframe (dataset.py) and the start-up of train.py               *)
(***************************************************************************)
Fractions == 0..Den

\* int(x) of the non-negative x = num / Den: truncation
Trunc(num) == num \div Den

\* round(x) of the non-negative x = num / Den: to the nearest, a tie to the even
Round(num) ==
    LET q == num \div Den
        r == num % Den
    IN  IF 2 * r < Den THEN q
        ELSE IF 2 * r > Den THEN q + 1
        ELSE IF q % 2 = 0 THEN q ELSE q + 1

\* the permutations of 0..n-1, as lists: what random.shuffle and randperm may give
Perms(n) ==
    {p \in [1..n -> 0..(n - 1)] : \A i, j \in 1..n : p[i] = p[j] => i = j}

\* A faulty TrainEnd: the product is rounded, not truncated.
TrainEndRounded(n, sp) == Round(n * sp.train)

\* train_end = int(samples * split['train'])
TrainEnd(n, sp) == Trunc(n * sp.train)

\* A faulty ValEnd: the train_end offset is forgotten.
ValEndNoOffset(n, sp) == Trunc(n * sp.validation)

\* val_end = train_end + int(samples * split['validation'])
ValEnd(n, sp) == TrainEnd(n, sp) + Trunc(n * sp.validation)

\* train_size, val_size, test_size of train.py
TrainSize(n, sp) == Trunc(sp.train * n)

ValSize(n, sp) == Trunc(sp.validation * n)

\* test_size = n_videos - train_size - val_size
TestSize(n, sp) == n - TrainSize(n, sp) - ValSize(n, sp)

\* accumulate(lengths)[k]
Offset(lengths, k) ==
    IF k = 1 THEN lengths[1]
    ELSE IF k = 2 THEN lengths[1] + lengths[2]
    ELSE lengths[1] + lengths[2] + lengths[3]

\* torch.utils.data.random_split: the k-th subset is
\* indices[offset - length : offset] of the permutation drawn
RandomSplit(perm, lengths) ==
    [k \in 1..3 |->
        LET off == Offset(lengths, k)
            lo == off - lengths[k]
        IN  Slice(perm, IF lo < 0 THEN 0 ELSE lo, IF off < 0 THEN 0 ELSE off)]

NoLoader == [dataset |-> <<>>, shuffle |-> FALSE]

\* the dataloaders dict of train.py
Loaders(tr, va, te) ==
    [train |-> [dataset |-> tr, shuffle |-> TRUE],
     val   |-> [dataset |-> va, shuffle |-> FALSE],
     test  |-> [dataset |-> va, shuffle |-> FALSE]]

IdleSplit ==
    /\ samples = 0
    /\ split = [train |-> 0, validation |-> 0]
    /\ spc = "idle"
    /\ index = <<>>
    /\ train_index = <<>>
    /\ val_index = <<>>
    /\ test_index = <<>>
    /\ mpc = "idle"
    /\ indices = <<>>
    /\ train_set = <<>>
    /\ val_set = <<>>
    /\ test_set = <<>>
    /\ dataloaders = [train |-> NoLoader, val |-> NoLoader, test |-> NoLoader]
    /\ test_loader_pt = NoLoader

InitSplit ==
    /\ samples \in 0..MaxSamples
    /\ split \in [train : Fractions, validation : Fractions]
    /\ spc = "call"
    /\ index = [i \in 1..samples |-> i - 1]
    /\ train_index = <<>>
    /\ val_index = <<>>
    /\ test_index = <<>>
    /\ mpc = "start"
    /\ indices = <<>>
    /\ train_set = <<>>
    /\ val_set = <<>>
    /\ test_set = <<>>
    /\ dataloaders = [train |-> NoLoader, val |-> NoLoader, test |-> NoLoader]
    /\ test_loader_pt = NoLoader

mainVars == <<mpc, indices, train_set, val_set, test_set, dataloaders, test_loader_pt>>

\* split_dataframe(dataframe, split)
SplitDataframe ==
    /\ spc = "call"
    /\ \E p \in Perms(samples) :
         /\ index' = p
         /\ train_index' = Slice(p, 0, TrainEnd(samples, split))
         /\ val_index' = Slice(p, TrainEnd(samples, split), ValEnd(samples, split))
         /\ test_index' = Slice(p, ValEnd(samples, split), samples)
    /\ spc' = "returned"
    /\ UNCHANGED <<samples, split>>
    /\ UNCHANGED mainVars
    /\ UNCHANGED <<indexVars, trainVars, transformVars>>

\* train.py 47-52: the sizes and torch.utils.data.random_split
SplitDataset ==
    /\ mpc = "start"
    /\ \E p \in Perms(samples) :
         LET parts == RandomSplit(p, <<TrainSize(samples, split), ValSize(samples, split),
                                       TestSize(samples, split)>>)
         IN  /\ indices' = p
             /\ train_set' = parts[1]
             /\ val_set' = parts[2]
             /\ test_set' = parts[3]
    /\ mpc' = "split"
    /\ UNCHANGED <<samples, split, spc, index, train_index, val_index, test_index>>
    /\ UNCHANGED <<dataloaders, test_loader_pt>>
    /\ UNCHANGED <<indexVars, trainVars, transformVars>>

\* train.py 54-61: the dataloaders dict
MakeLoaders ==
    /\ mpc = "split"
    /\ dataloaders' = Loaders(train_set, val_set, test_set)
    /\ mpc' = "loaders"
    /\ UNCHANGED <<samples, split, spc, index, train_index, val_index, test_index>>
    /\ UNCHANGED <<indices, train_set, val_set, test_set, test_loader_pt>>
    /\ UNCHANGED <<indexVars, trainVars, transformVars>>

\* train.py 75: torch.save(dataloaders['test'], .../test_loader.pt)
SaveTestLoader ==
    /\ mpc = "loaders"
    /\ test_loader_pt' = dataloaders.test
    /\ mpc' = "saved"
    /\ UNCHANGED <<samples, split, spc, index, train_index, val_index, test_index>>
    /\ UNCHANGED <<indices, train_set, val_set, test_set, dataloaders>>
    /\ UNCHANGED <<indexVars, trainVars, transformVars>>

(***************************************************************************)
(* The epoch loop of train.py                                              *)
(***************************************************************************)
Losses == 1..MaxLoss

\* np.inf: above every loss
Inf == MaxLoss + 1

epoch_phases == <<"train", "val">>

\* A faulty ModeFor: model.eval() is never called.
ModeForAlwaysTrain(ph) == "train"

\* model.train() if phase == 'train', else model.eval()
ModeFor(ph) == IF ph = "train" THEN "train" ELSE "eval"

\* optimizer.zero_grad()
ZeroGrad(g) == 0

\* A faulty SaveDecision: a tie saves too.
SaveDecisionOnTie(vl, bvl, sbo) == (vl <= bvl) \/ ~sbo

\* (val_loss < best_val_loss) or (not config['save_best_model_only'])
SaveDecision(vl, bvl, sbo) == (vl < bvl) \/ ~sbo

NoSummary == <<>>

IdleTrain ==
    /\ epochs = 0
    /\ save_best_model_only = FALSE
    /\ tpc = "idle"
    /\ epoch = 0
    /\ phase = 1
    /\ mode = "train"
    /\ grads = 0
    /\ training_loss = None
    /\ val_loss = None
    /\ best_val_loss = Inf
    /\ best_training_loss = Inf
    /\ checkpoints = {}
    /\ scalars = [train |-> <<>>, val |-> <<>>]
    /\ hparams = NoSummary

\* the state at line 87: a model just built (or loaded from a state dict) is in
\* train mode and holds no gradient
InitTrain ==
    /\ epochs \in 0..MaxEpochs
    /\ save_best_model_only \in BOOLEAN
    /\ tpc = "loop"
    /\ epoch = 0
    /\ phase = 1
    /\ mode = "train"
    /\ grads = 0
    /\ training_loss = None
    /\ val_loss = None
    /\ best_val_loss = Inf
    /\ best_training_loss = Inf
    /\ checkpoints = {}
    /\ scalars = [train |-> <<>>, val |-> <<>>]
    /\ hparams = NoSummary

\* train.py 87-90: the head of the loop body
StartEpoch ==
    /\ tpc = "loop"
    /\ epoch < epochs
    /\ training_loss' = None
    /\ val_loss' = None
    /\ grads' = ZeroGrad(grads)
    /\ phase' = 1
    /\ tpc' = "phase"
    /\ UNCHANGED <<epochs, save_best_model_only, epoch, mode, best_val_loss,
                   best_training_loss, checkpoints, scalars, hparams>>
    /\ UNCHANGED <<indexVars, splitVars, transformVars>>

\* train.py 91-95: the mode flag, then run_epoch is entered
BeginPhase ==
    /\ tpc = "phase"
    /\ phase <= Len(epoch_phases)
    /\ mode' = ModeFor(epoch_phases[phase])
    /\ tpc' = "run"
    /\ UNCHANGED <<epochs, save_best_model_only, epoch, phase, grads, training_loss,
                   val_loss, best_val_loss, best_training_loss, checkpoints, scalars,
                   hparams>>
    /\ UNCHANGED <<indexVars, splitVars, transformVars>>

\* train.py 96-114: run_epoch returns its results; the loss is kept and logged.
\* What run_epoch leaves in the gradients is its own business: any amount.
RunEpoch ==
    /\ tpc = "run"
    /\ \E loss \in Losses, g \in 0..MaxGrads :
         /\ grads' = g
         /\ IF epoch_phases[phase] = "train"
            THEN training_loss' = Some(loss) /\ UNCHANGED val_loss
            ELSE val_loss' = Some(loss) /\ UNCHANGED training_loss
         /\ scalars' = [scalars EXCEPT ![epoch_phases[phase]] = Append(@, loss)]
    /\ phase' = phase + 1
    /\ tpc' = "phase"
    /\ UNCHANGED <<epochs, save_best_model_only, epoch, mode, best_val_loss,
                   best_training_loss, checkpoints, hparams>>
    /\ UNCHANGED <<indexVars, splitVars, transformVars>>

\* train.py 116-120: the checkpoint decision and the best losses
Decide ==
    /\ tpc = "phase"
    /\ phase > Len(epoch_phases)
    /\ IF val_loss = None \/ training_loss = None
       THEN /\ tpc' = "TypeError"
            /\ UNCHANGED <<epoch, best_val_loss, best_training_loss, checkpoints>>
       ELSE LET save == SaveDecision(Value(val_loss), best_val_loss, save_best_model_only)
                bvl == IF save THEN Value(val_loss) ELSE best_val_loss
            IN  /\ checkpoints' = IF save THEN checkpoints \cup {epoch} ELSE checkpoints
                /\ best_val_loss' = bvl
                /\ best_training_loss' =
                       IF Value(training_loss) < bvl THEN Value(training_loss)
                       ELSE best_training_loss
                /\ epoch' = epoch + 1
                /\ tpc' = "loop"
    /\ UNCHANGED <<epochs, save_best_model_only, phase, mode, grads, training_loss,
                   val_loss, scalars, hparams>>
    /\ UNCHANGED <<indexVars, splitVars, transformVars>>

\* train.py 121-131: the loop is over; add_hparams records the best losses
Summary ==
    /\ tpc = "loop"
    /\ epoch >= epochs
    /\ hparams' = Some([best_training_loss |-> best_training_loss,
                        best_validation_loss |-> best_val_loss])
    /\ tpc' = "done"
    /\ UNCHANGED <<epochs, save_best_model_only, epoch, phase, mode, grads,
                   training_loss, val_loss, best_val_loss, best_training_loss,
                   checkpoints, scalars>>
    /\ UNCHANGED <<indexVars, splitVars, transformVars>>

(***************************************************************************)
(* Samples and transforms (dataset.py)                                     *)
(***************************************************************************)
\* 1.jpg of each dish as asarray(Image.open(frame)) gives it: H x W x C, uint8
Disk(d) ==
    IF d = "D1"
    THEN [kind |-> "ndarray", dtype |-> "uint8", shape |-> <<2, 2, 3>>,
          px |-> <<<< <<0, 2, 4>>, <<6, 8, 10>> >>, << <<12, 14, 16>>, <<18, 20, 22>> >>>>]
    ELSE [kind |-> "ndarray", dtype |-> "uint8", shape |-> <<1, 2, 3>>,
          px |-> <<<< <<30, 32, 34>>, <<36, 38, 40>> >>>>]

\* the mass and calories columns of the index, in units in which every division
\* of the model is exact
Mass(d) == IF d = "D1" THEN 64 ELSE 128

Calories(d) == IF d = "D1" THEN 256 ELSE 512

\* the arguments the transforms are built with
OutputSizes == {<<1, 1>>, <<1, 2>>, <<2, 2>>}

CropSizes == {1, 2}

MaxConstants == {1, 2}

ImageMeans == {0, 2}

ImageStds == {1, 2}

\* Nutrition5kDataset.__getitem__ before the transform: the raw sample
RawSample(d) ==
    [image    |-> Disk(d),
     mass     |-> [kind |-> "ndarray", val |-> Mass(d)],
     calories |-> [kind |-> "ndarray", val |-> Calories(d)]]

\* transform.resize(image, (new_h, new_w), preserve_range=True).astype('uint8'):
\* the channels are kept, each output pixel is taken from the source at the scaled
\* position (the library's interpolation weights are not modelled)
ResizeImage(img, size) ==
    [kind |-> "ndarray", dtype |-> "uint8", shape |-> <<size[1], size[2], img.shape[3]>>,
     px |-> [i \in 1..size[1] |-> [j \in 1..size[2] |->
                img.px[((i - 1) * img.shape[1]) \div size[1] + 1]
                      [((j - 1) * img.shape[2]) \div size[2] + 1]]]]

\* int(round(k / 2.0)): a tie goes to the even
RoundHalf(k) ==
    IF k % 2 = 0 THEN k \div 2
    ELSE IF (k \div 2) % 2 = 0 THEN k \div 2 ELSE k \div 2 + 1

\* functional.center_crop of a C x H x W tensor to n x n, n within the image
CenterCropImage(img, n) ==
    LET top == RoundHalf(img.shape[2] - n)
        left == RoundHalf(img.shape[3] - n)
    IN  [img EXCEPT !.shape = <<img.shape[1], n, n>>,
                    !.px = [c \in 1..img.shape[1] |-> [i \in 1..n |-> [j \in 1..n |->
                               img.px[c][top + i][left + j]]]]]

\* functional.hflip of a C x H x W tensor: the last axis reversed
HFlipImage(img) ==
    [img EXCEPT !.px = [c \in 1..img.shape[1] |-> [i \in 1..img.shape[2] |->
                          [j \in 1..img.shape[3] |-> img.px[c][i][img.shape[3] + 1 - j]]]]]

\* functional.vflip of a C x H x W tensor: the axis before the last reversed
VFlipImage(img) ==
    [img EXCEPT !.px = [c \in 1..img.shape[1] |-> [i \in 1..img.shape[2] |->
                          [j \in 1..img.shape[3] |-> img.px[c][img.shape[2] + 1 - i][j]]]]]

\* torch.from_numpy(image.transpose((2, 0, 1))): H x W x C to C x H x W, same dtype
TransposeToTensor(img) ==
    [kind |-> "tensor", dtype |-> img.dtype,
     shape |-> <<img.shape[3], img.shape[1], img.shape[2]>>,
     px |-> [c \in 1..img.shape[3] |-> [i \in 1..img.shape[1] |->
                [j \in 1..img.shape[2] |-> img.px[i][j][c]]]]]

\* torch.from_numpy of a 1 x 1 array
FromNumpy(x) == [kind |-> "tensor", val |-> x.val]

\* x / maximum of a 1 x 1 array or tensor
Divide(x, maximum) == [x EXCEPT !.val = @ \div maximum]

\* functional.normalize accepts a float tensor only
NormalizeAccepts(img) == img.kind = "tensor" /\ img.dtype = "float"

\* functional.normalize: (x - mean) / std on every channel
NormalizeImage(img, mean, std) ==
    [img EXCEPT !.px = [c \in 1..img.shape[1] |-> [i \in 1..img.shape[2] |->
                          [j \in 1..img.shape[3] |-> (img.px[c][i][j] - mean) \div std]]]]

(***************************************************************************)
(* The __call__ of each transform on the sample at reference r of heap h:   *)
(* the heap after the call, and what the call returned.                    *)
(***************************************************************************)
\* Resize.__call__
ResizeCall(h, r, size) ==
    [heap |-> [h EXCEPT ![r].image = ResizeImage(h[r].image, size)], ret |-> Some(r)]

\* CenterCrop.__call__
CenterCropCall(h, r, n) ==
    [heap |-> [h EXCEPT ![r].image = CenterCropImage(h[r].image, n)], ret |-> Some(r)]

\* RandomHorizontalFlip.__call__: self.flip mirrors the image or hands it back
HFlipCall(h, r, flip) ==
    [heap |-> [h EXCEPT ![r].image = IF flip THEN HFlipImage(h[r].image) ELSE h[r].image],
     ret |-> Some(r)]

\* RandomVerticalFlip.__call__
VFlipCall(h, r, flip) ==
    [heap |-> [h EXCEPT ![r].image = IF flip THEN VFlipImage(h[r].image) ELSE h[r].image],
     ret |-> Some(r)]

\* A faulty ToTensorCall: the fields of the sample passed in are converted in place.
ToTensorCallInPlace(h, r) ==
    [heap |-> [h EXCEPT ![r] = [image |-> TransposeToTensor(h[r].image),
                                mass |-> FromNumpy(h[r].mass),
                                calories |-> FromNumpy(h[r].calories)]],
     ret |-> Some(r)]

\* ToTensor.__call__: a new dict, at the next reference
ToTensorCall(h, r) ==
    [heap |-> Append(h, [image |-> TransposeToTensor(h[r].image),
                         mass |-> FromNumpy(h[r].mass),
                         calories |-> FromNumpy(h[r].calories)]),
     ret |-> Some(Len(h) + 1)]

\* Normalize.__call__: mass, then calories, then the image; functional.normalize
\* raises on an image it does not accept, after the two divisions were stored
NormalizeCall(h, r, means, stds, mass_max, calories_max) ==
    LET h2 == [h EXCEPT ![r].mass = Divide(h[r].mass, mass_max),
                        ![r].calories = Divide(h[r].calories, calories_max)]
    IN  IF NormalizeAccepts(h[r].image)
        THEN [heap |-> [h2 EXCEPT ![r].image = NormalizeImage(h[r].image, means, stds)],
              ret |-> Some(r)]
        ELSE [heap |-> h2, ret |-> None]

Allocated == 1..Len(heap)

IdleTransform ==
    /\ heap = <<>>
    /\ op = "idle"
    /\ arg = None
    /\ ret = None
    /\ calls = 0

InitTransform ==
    /\ heap = <<>>
    /\ op = "none"
    /\ arg = None
    /\ ret = None
    /\ calls = 0

\* Nutrition5kDataset.__getitem__ 140-157: a fresh sample dict
GetItem ==
    /\ op # "idle"
    /\ Len(heap) < MaxRefs
    /\ \E d \in DishIds :
         /\ heap' = Append(heap, RawSample(d))
         /\ ret' = Some(Len(heap) + 1)
    /\ op' = "getitem"
    /\ arg' = None
    /\ UNCHANGED calls
    /\ UNCHANGED <<indexVars, splitVars, trainVars>>

\* the result of a transform call is stored
Called(name, r, result) ==
    /\ calls < MaxCalls
    /\ heap' = result.heap
    /\ ret' = result.ret
    /\ op' = name
    /\ arg' = Some(r)
    /\ calls' = calls + 1
    /\ UNCHANGED <<indexVars, splitVars, trainVars>>

ApplyResize ==
    \E r \in Allocated, size \in OutputSizes :
        /\ heap[r].image.kind = "ndarray"
        /\ Called("Resize", r, ResizeCall(heap, r, size))

ApplyCenterCrop ==
    \E r \in Allocated, n \in CropSizes :
        /\ heap[r].image.kind = "tensor"
        /\ n <= heap[r].image.shape[2]
        /\ n <= heap[r].image.shape[3]
        /\ Called("CenterCrop", r, CenterCropCall(heap, r, n))

ApplyHFlip ==
    \E r \in Allocated, flip \in BOOLEAN :
        /\ heap[r].image.kind = "tensor"
        /\ Called("RandomHorizontalFlip", r, HFlipCall(heap, r, flip))

ApplyVFlip ==
    \E r \in Allocated, flip \in BOOLEAN :
        /\ heap[r].image.kind = "tensor"
        /\ Called("RandomVerticalFlip", r, VFlipCall(heap, r, flip))

ApplyToTensor ==
    \E r \in Allocated :
        /\ heap[r].image.kind = "ndarray"
        /\ Len(heap) < MaxRefs
        /\ Called("ToTensor", r, ToTensorCall(heap, r))

ApplyNormalize ==
    \E r \in Allocated, means \in ImageMeans, stds \in ImageStds,
       mass_max \in MaxConstants, calories_max \in MaxConstants :
        Called("Normalize", r, NormalizeCall(heap, r, means, stds, mass_max, calories_max))

(***************************************************************************)
(* The specifications                                                      *)
(***************************************************************************)
NextIndex == ReadLine \/ NextFile \/ ReturnFrame

StartIndex == InitIndex /\ IdleSplit /\ IdleTrain /\ IdleTransform

SpecIndex == StartIndex /\ [][NextIndex]_vars

NextSplit == SplitDataframe \/ SplitDataset \/ MakeLoaders \/ SaveTestLoader

StartSplit == IdleIndex /\ InitSplit /\ IdleTrain /\ IdleTransform

SpecSplit == StartSplit /\ [][NextSplit]_vars

NextTrain == StartEpoch \/ BeginPhase \/ RunEpoch \/ Decide \/ Summary

StartTrain == IdleIndex /\ IdleSplit /\ InitTrain /\ IdleTransform

SpecTrain == StartTrain /\ [][NextTrain]_vars

\* train.py is a sequential program: while a statement is left to run, it runs
LiveTrain == SpecTrain /\ WF_vars(NextTrain)

NextTransform ==
    \/ GetItem \/ ApplyResize \/ ApplyCenterCrop \/ ApplyHFlip \/ ApplyVFlip
    \/ ApplyToTensor \/ ApplyNormalize

StartTransform == IdleIndex /\ IdleSplit /\ IdleTrain /\ InitTransform

SpecTransform == StartTransform /\ [][NextTransform]_vars

(***************************************************************************)
(* Properties of split_dataframe and of the start-up of train.py           *)
(***************************************************************************)
Range(seq) == {seq[i] : i \in 1..Len(seq)}

IsPartition(a, b, c, n) ==
    /\ Range(a) \cap Range(b) = {}
    /\ Range(a) \cap Range(c) = {}
    /\ Range(b) \cap Range(c) = {}
    /\ Range(a) \cup Range(b) \cup Range(c) = 0..(n - 1)
    /\ Len(a) + Len(b) + Len(c) = n

InContract == split.train + split.validation <= Den

\* k is the integer part of num / Den
IsFloor(k, num) == k * Den <= num /\ num < (k + 1) * Den

\* C1: for a split specification with train + validation <= 1.0, the three
\* subsets of split_dataframe, and the three of train.py's random_split, are
\* pairwise disjoint, cover the whole index and have sizes summing to the number
\* of records, for every permutation drawn.
C1_SplitPartitions ==
    InContract =>
        /\ spc = "returned" => IsPartition(train_index, val_index, test_index, samples)
        /\ mpc # "start" => IsPartition(train_set, val_set, test_set, samples)

C1_Witness ==
    /\ InContract
    /\ spc = "returned"
    /\ mpc = "split"
    /\ train_index # <<>> /\ val_index # <<>> /\ test_index # <<>>
    /\ train_set # <<>> /\ val_set # <<>> /\ test_set # <<>>

\* C2, as the specification states it: train holds round(n * train) records,
\* validation the next round(n * validation) of the permutation, test the rest.
C2_SplitSizesRound ==
    InContract =>
        /\ spc = "returned" =>
              /\ Len(train_index) = Round(samples * split.train)
              /\ Len(val_index) = Round(samples * split.validation)
              /\ train_index \o val_index \o test_index = index
        /\ mpc # "start" =>
              /\ Len(train_set) = Round(samples * split.train)
              /\ Len(val_set) = Round(samples * split.validation)
              /\ train_set \o val_set \o test_set = indices

\* C2, amended: for train + validation <= 1.0, train holds the first
\* int(n * train) records of the permutation (the product truncated, not rounded),
\* validation the next int(n * validation), test the rest.
C2_SplitSizesTruncate ==
    InContract =>
        /\ spc = "returned" =>
              /\ IsFloor(Len(train_index), samples * split.train)
              /\ IsFloor(Len(val_index), samples * split.validation)
              /\ train_index \o val_index \o test_index = index
        /\ mpc # "start" =>
              /\ IsFloor(Len(train_set), samples * split.train)
              /\ IsFloor(Len(val_set), samples * split.validation)
              /\ train_set \o val_set \o test_set = indices

C2_Witness ==
    /\ InContract
    /\ spc = "returned"
    /\ mpc = "split"
    /\ Len(train_index) # Round(samples * split.train)
    /\ Len(val_set) # Round(samples * split.validation)
    /\ test_index # <<>>

\* C8: the loader saved as test_loader.pt iterates exactly the records of the
\* test split, none of the train split and none of the validation split.
C8_TestLoaderIsTestSplit ==
    mpc = "saved" =>
        /\ Range(test_loader_pt.dataset) = Range(test_set)
        /\ Range(test_loader_pt.dataset) \cap Range(train_set) = {}
        /\ Range(test_loader_pt.dataset) \cap Range(val_set) = {}

(***************************************************************************)
(* Properties of create_nutrition_df                                       *)
(***************************************************************************)
Last(seq) == seq[Len(seq)]

HasFrame(parts) == parts[1] \in exists

\* the lines read whose image exists, in file order
Retained == SelectSeq(lines, HasFrame)

\* C3: no exception comes from a line whose image is missing; such a line adds
\* nothing; every record kept has its image; the records kept are the lines whose
\* image exists, in file order, in the dict and in the DataFrame returned.
C3_MissingImageSkipped ==
    /\ ipc \in {"IndexError", "ValueError"} => HasFrame(Last(lines))
    /\ \A i \in 1..Len(dish_metadata.dish_id) : dish_metadata.dish_id[i] \in exists
    /\ dish_metadata.dish_id = [i \in 1..Len(Retained) |-> Retained[i][1]]
    /\ ipc \in {"reading", "returned"} =>
          /\ dish_metadata.calories = [i \in 1..Len(Retained) |-> IntFloat(Retained[i][2]).val]
          /\ dish_metadata.mass = [i \in 1..Len(Retained) |-> Retained[i][3]]
    /\ ipc = "returned" =>
          /\ dataframe.dish_id = [i \in 1..Len(Retained) |-> Retained[i][1]]
          /\ dataframe.index = [i \in 1..Len(Retained) |-> i - 1]
          /\ \A i \in 1..Len(dataframe.dish_id) : dataframe.dish_id[i] \in exists

C3_Witness ==
    /\ ipc = "returned"
    /\ \E i \in 1..Len(lines) : ~HasFrame(lines[i])
    /\ Len(dataframe.dish_id) = 2
    /\ Len(lines) = 3

\* C4: a line with fewer than three fields is skipped: the build goes on (or
\* returns), and the three lists stay of one length.
C4_MalformedRowSkipped ==
    (lines # <<>> /\ Len(Last(lines)) < 3) =>
        /\ ipc \in {"reading", "returned"}
        /\ Len(dish_metadata.dish_id) = Len(dish_metadata.calories)
        /\ Len(dish_metadata.dish_id) = Len(dish_metadata.mass)

(***************************************************************************)
(* Properties of the epoch loop                                            *)
(***************************************************************************)
\* the least of the first k values of seq, np.inf when there is none
MinUpTo(seq, k) ==
    LET S == {seq[i] : i \in 1..k} \cup {Inf}
    IN  CHOOSE m \in S : \A x \in S : m <= x

MinOf(seq) == MinUpTo(seq, Len(seq))

\* C5: epoch_<e>.pt is written for a finished epoch e, under
\* save_best_model_only, exactly when e's validation loss is strictly lower than
\* the best validation loss of all earlier epochs, and otherwise for every epoch.
C5_CheckpointPolicy ==
    /\ checkpoints \subseteq 0..(epoch - 1)
    /\ \A e \in 0..(epoch - 1) :
          e \in checkpoints <=>
              (~save_best_model_only \/ scalars.val[e + 1] < MinUpTo(scalars.val, e))

C5_Witness ==
    /\ save_best_model_only
    /\ epoch = 3
    /\ checkpoints = {0, 2}

\* C6: after every finished epoch, and in the summary, the best validation loss
\* is the least validation loss of the epochs run, under both policies.
C6_BestValIsMinimum ==
    /\ tpc \in {"loop", "done"} => best_val_loss = MinOf(scalars.val)
    /\ tpc = "done" => Value(hparams).best_validation_loss = MinOf(scalars.val)

\* C7: after every finished epoch, and in the summary, the best training loss is
\* the least training loss of the epochs run.
C7_BestTrainIsMinimum ==
    /\ tpc \in {"loop", "done"} => best_training_loss = MinOf(scalars.train)
    /\ tpc = "done" => Value(hparams).best_training_loss = MinOf(scalars.train)

\* what run_epoch is running, when it runs
Running(ph) == tpc = "run" /\ epoch_phases[phase] = ph

C9_PhaseOrder ==
    /\ Running("train") =>
          /\ mode = "train"
          /\ grads = 0
          /\ Len(scalars.train) = epoch
          /\ Len(scalars.val) = epoch
    /\ Running("val") =>
          /\ mode = "eval"
          /\ Len(scalars.train) = epoch + 1
          /\ Len(scalars.val) = epoch
    /\ Len(scalars.train) <= epochs
    /\ Len(scalars.val) <= epochs
    /\ tpc = "done" =>
          /\ epoch = epochs
          /\ Len(scalars.train) = epochs
          /\ Len(scalars.val) = epochs

C9_DecisionAfterValidation ==
    (checkpoints' # checkpoints \/ best_val_loss' # best_val_loss \/ epoch' # epoch) =>
        /\ tpc = "phase"
        /\ Len(scalars.train) = epoch + 1
        /\ Len(scalars.val) = epoch + 1
        /\ epoch' = epoch + 1

\* C9: every epoch runs the train phase in train mode on zeroed gradients, then
\* the validation phase in eval mode, then the checkpoint decision; this happens
\* for exactly `epochs` epochs, and the run reaches Done.
C9_EpochStateMachine ==
    /\ []C9_PhaseOrder
    /\ [][C9_DecisionAfterValidation]_vars
    /\ <>(tpc = "done")

C9_Witness ==
    /\ tpc = "done"
    /\ epochs >= 2
    /\ Len(scalars.val) = epochs
    /\ mode = "eval"
    /\ checkpoints # {}

(***************************************************************************)
(* Properties of the transforms                                            *)
(***************************************************************************)
TransformCalled == calls' = calls + 1

\* C10, as the specification states it: a transform leaves the sample passed in
\* as it was and returns a new sample.
C10_TransformsPure ==
    [][(TransformCalled /\ ret' # None) =>
          /\ \A r \in 1..Len(heap) : heap'[r] = heap[r]
          /\ Value(ret') \notin 1..Len(heap)]_vars

InPlaceImageOps == {"Resize", "CenterCrop", "RandomHorizontalFlip", "RandomVerticalFlip"}

C10_CallEffect ==
    TransformCalled =>
        LET r == Value(arg')
        IN  /\ \A q \in 1..Len(heap) : q # r => heap'[q] = heap[q]
            /\ op' = "ToTensor" =>
                  /\ heap'[r] = heap[r]
                  /\ Len(heap') = Len(heap) + 1
                  /\ ret' = Some(Len(heap) + 1)
                  /\ heap'[Len(heap) + 1].image.kind = "tensor"
                  /\ heap'[Len(heap) + 1].mass.val = heap[r].mass.val
                  /\ heap'[Len(heap) + 1].calories.val = heap[r].calories.val
            /\ op' \in InPlaceImageOps =>
                  /\ Len(heap') = Len(heap)
                  /\ ret' = arg'
                  /\ heap'[r].mass = heap[r].mass
                  /\ heap'[r].calories = heap[r].calories
            /\ op' = "Normalize" =>
                  /\ Len(heap') = Len(heap)
                  /\ ret' # None => ret' = arg'
                  /\ \E m \in MaxConstants : heap'[r].mass.val * m = heap[r].mass.val
                  /\ \E c \in MaxConstants : heap'[r].calories.val * c = heap[r].calories.val

\* C10, amended: ToTensor alone leaves the sample passed in as it was and returns
\* a new sample; Resize, CenterCrop and the two flips store their result in the
\* image of the sample passed in and return that same sample, mass and calories
\* untouched; Normalize overwrites mass and calories of the sample passed in and,
\* when it returns, returns that same sample. No call touches another sample.
C10_ToTensorPureOthersInPlace == [][C10_CallEffect]_vars

C10_Witness ==
    /\ op = "CenterCrop"
    /\ ret = arg
    /\ Len(heap) = 2
    /\ heap[1].image.kind = "ndarray"
    /\ heap[1].image.shape = <<2, 2, 3>>
    /\ heap[2].image.shape = <<3, 1, 1>>

====
